---- MODULE Spec2Model ----
(***************************************************************************)
(* CC-CEDICT to Yomichan converter (src/main.py): the line pipeline of     *)
(* termbank_creator.create_termbank and the batching generator             *)
(* create_termbanks.                                                       *)
(*                                                                         *)
(* A Python str is a sequence of one-character strings; "" is <<>>.        *)
(***************************************************************************)
EXTENDS Integers, Sequences, FiniteSets, TLC

(***************************************************************************)
(* Bounds of the model.                                                    *)
(***************************************************************************)
\* TERM_BANK_SIZE is divided by Scale so that a term bank fills within MaxLines lines.
Scale == 1000
\* The most lines the line source hands out before it is exhausted.
MaxLines == 6
\* The most slash-delimited fields of a generated meaning.
MaxFields == 4

\* src/main.py:13
TERM_BANK_SIZE == 4000

\* the size a term bank is compared with at line 87, in the scale of the model
BankSize == TERM_BANK_SIZE \div Scale

(***************************************************************************)
(* str helpers                                                             *)
(***************************************************************************)
EmptyStr == <<>>

Whitespace == {" ", "\n", "\t", "\r"}

\* s[i..j], empty when j < i
Slice(s, i, j) == SubSeq(s, i, j)

\* str.startswith at offset i (1-based): s[i..] begins with p
StartsAt(s, i, p) ==
  /\ i >= 1
  /\ i + Len(p) - 1 <= Len(s)
  /\ \A k \in 1..Len(p) : s[i + k - 1] = p[k]

\* str.lower() on one character: the ASCII letters
LowerOf ==
  [A |-> "a", B |-> "b", C |-> "c", D |-> "d", E |-> "e", F |-> "f", G |-> "g",
   H |-> "h", I |-> "i", J |-> "j", K |-> "k", L |-> "l", M |-> "m", N |-> "n",
   O |-> "o", P |-> "p", Q |-> "q", R |-> "r", S |-> "s", T |-> "t", U |-> "u",
   V |-> "v", W |-> "w", X |-> "x", Y |-> "y", Z |-> "z"]

UpperLetters == DOMAIN LowerOf

LowerChar(c) == IF c \in UpperLetters THEN LowerOf[c] ELSE c

\* str.lower()
lower(s) == [k \in 1..Len(s) |-> LowerChar(s[k])]

SetMin(S) == CHOOSE x \in S : \A y \in S : x <= y

SetMax(S) == CHOOSE x \in S : \A y \in S : x >= y

\* str.strip(): whitespace removed at both ends
strip(s) ==
  IF \A k \in 1..Len(s) : s[k] \in Whitespace THEN <<>>
  ELSE Slice(s,
             CHOOSE b \in 1..Len(s) :
               s[b] \notin Whitespace /\ \A k \in 1..(b - 1) : s[k] \in Whitespace,
             CHOOSE e \in 1..Len(s) :
               s[e] \notin Whitespace /\ \A k \in (e + 1)..Len(s) : s[k] \in Whitespace)

\* str.find(p, i): the first index >= i where p occurs in s, or 0
Find(s, i, p) ==
  LET at == {k \in i..Len(s) : StartsAt(s, k, p)}
  IN IF at = {} THEN 0 ELSE SetMin(at)

\* str.replace(old, new): every non-overlapping occurrence, left to right
RECURSIVE replaceFrom(_, _, _, _)
replaceFrom(s, i, old, new) ==
  LET k == Find(s, i, old)
  IN IF k = 0 THEN Slice(s, i, Len(s))
     ELSE Slice(s, i, k - 1) \o new \o replaceFrom(s, k + Len(old), old, new)

replace(s, old, new) == replaceFrom(s, 1, old, new)

removeprefix(s, p) == IF StartsAt(s, 1, p) THEN Slice(s, Len(p) + 1, Len(s)) ELSE s

removesuffix(s, p) ==
  IF Len(p) > 0 /\ StartsAt(s, Len(s) - Len(p) + 1, p)
    THEN Slice(s, 1, Len(s) - Len(p))
    ELSE s

\* str.split(sep): the pieces between the occurrences of the character sep
RECURSIVE splitFrom(_, _, _)
splitFrom(s, i, sep) ==
  LET k == Find(s, i, <<sep>>)
  IN IF k = 0 THEN <<Slice(s, i, Len(s))>>
     ELSE <<Slice(s, i, k - 1)>> \o splitFrom(s, k + 1, sep)

split(s, sep) == splitFrom(s, 1, sep)

\* str.split(): the maximal runs of non-whitespace characters
RECURSIVE splitWs(_, _)
splitWs(s, i) ==
  LET words == {k \in i..Len(s) : s[k] \notin Whitespace}
  IN IF words = {} THEN <<>>
     ELSE LET b == SetMin(words)
              gaps == {k \in b..Len(s) : s[k] \in Whitespace}
              e == IF gaps = {} THEN Len(s) ELSE SetMin(gaps) - 1
          IN <<Slice(s, b, e)>> \o splitWs(s, e + 1)

splitWhitespace(s) == splitWs(s, 1)

(***************************************************************************)
(* re helpers: the two patterns of the program are a literal opening, a    *)
(* lazy ".+?" and a literal closing character.                             *)
(***************************************************************************)
\* End index of the match of  open .+? close  that starts at i, or 0 when
\* there is none ("." matches any character but a newline).
LazyMatchEnd(s, i, open, close) ==
  IF ~StartsAt(s, i, open) THEN 0
  ELSE LET first == i + Len(open)
           cands == {j \in (first + 1)..Len(s) : s[j] = close}
       IN IF cands = {} THEN 0
          ELSE IF \E k \in first..(SetMin(cands) - 1) : s[k] = "\n" THEN 0
          ELSE SetMin(cands)

(***************************************************************************)
(* decode_pinyin (module decode_pinyin, imported at src/main.py:10):       *)
(* numbered syllables to diacritic form.                                   *)
(***************************************************************************)
Letters == UpperLetters \cup {LowerOf[c] : c \in UpperLetters} \cup {"ü"}

ToneDigits == <<"1", "2", "3", "4", "5">>

ToneNumber(c) == CHOOSE t \in 1..Len(ToneDigits) : ToneDigits[t] = c

\* The vowels with a tone mark, each ONE character of the text: "a1" is
\* U+0101 (a with macron), "a2" U+00E1 (acute), "a3" U+01CE (caron),
\* "a4" U+00E0 (grave), and so on for e, i, o, u and ü.
ToneMarks ==
  [a |-> <<"a1", "a2", "a3", "a4">>,
   e |-> <<"e1", "e2", "e3", "e4">>,
   i |-> <<"i1", "i2", "i3", "i4">>,
   o |-> <<"o1", "o2", "o3", "o4">>,
   u |-> <<"u1", "u2", "u3", "u4">>,
   v |-> <<"ü1", "ü2", "ü3", "ü4">>]

ToneMark(vowel, tone) ==
  CASE vowel = "a" -> ToneMarks.a[tone]
    [] vowel = "e" -> ToneMarks.e[tone]
    [] vowel = "i" -> ToneMarks.i[tone]
    [] vowel = "o" -> ToneMarks.o[tone]
    [] vowel = "u" -> ToneMarks.u[tone]
    [] vowel = "ü" -> ToneMarks.v[tone]

Positions(syl, S) == {k \in 1..Len(syl) : syl[k] \in S}

\* The position of the vowel that carries the diacritic, or 0
ToneVowel(syl) ==
  IF Positions(syl, {"a"}) # {} THEN SetMin(Positions(syl, {"a"}))
  ELSE IF Positions(syl, {"e"}) # {} THEN SetMin(Positions(syl, {"e"}))
  ELSE IF \E k \in 1..Len(syl) : StartsAt(syl, k, <<"o", "u">>)
    THEN SetMin({k \in 1..Len(syl) : StartsAt(syl, k, <<"o", "u">>)})
  ELSE IF Positions(syl, {"i", "o", "u", "ü"}) # {}
    THEN SetMax(Positions(syl, {"i", "o", "u", "ü"}))
  ELSE 0

DecodeSyllable(syl, digit) ==
  LET tone == ToneNumber(digit)
      at == ToneVowel(syl)
  IN IF tone = 5 THEN syl
     ELSE IF at = 0 THEN Append(syl, digit)
     ELSE [syl EXCEPT ![at] = ToneMark(syl[at], tone)]

RECURSIVE decodeFrom(_, _)
decodeFrom(s, i) ==
  IF i > Len(s) THEN <<>>
  ELSE LET others == {k \in i..Len(s) : s[k] \notin Letters}
           e == IF others = {} THEN Len(s) ELSE SetMin(others) - 1
       IN IF e < i THEN <<s[i]>> \o decodeFrom(s, i + 1)
          ELSE IF e < Len(s) /\ \E t \in 1..Len(ToneDigits) : ToneDigits[t] = s[e + 1]
            THEN DecodeSyllable(Slice(s, i, e), s[e + 1]) \o decodeFrom(s, e + 2)
          ELSE Slice(s, i, e) \o decodeFrom(s, e + 1)

decode_pinyin(s) == decodeFrom(replace(s, <<"u", ":">>, <<"ü">>), 1)

(***************************************************************************)
(* termbank_creator: the inner functions                                   *)
(***************************************************************************)
\* format_pinyin without the lower()
format_pinyin_keeps_case(match) == replace(match, <<"u", ":">>, <<"ü">>)

format_pinyin(match) == replace(lower(match), <<"u", ":">>, <<"ü">>)

to_pinyin(match) == decode_pinyin(match)

format_CL(match) ==
  replace(replace(replace(match, <<",", " ">>, <<",">>), <<",">>, <<",", " ">>),
          <<":">>, <<":", " ">>)

\* split_CL without the newline that ends the gloss
split_CL_no_newline(match) ==
  <<" ", "(">> \o removesuffix(removeprefix(format_CL(match), <<"/">>), <<"/">>) \o <<")">>

split_CL(match) ==
  <<" ", "(">> \o removesuffix(removeprefix(format_CL(match), <<"/">>), <<"/">>) \o <<")", "\n">>

\* The replacement callables handed to re.sub
Repl(f, match) ==
  CASE f = "format_pinyin" -> format_pinyin(match)
    [] f = "to_pinyin" -> to_pinyin(match)
    [] f = "format_CL" -> format_CL(match)
    [] f = "split_CL" -> split_CL(match)

\* re.sub(open .+? close, f, s): non-overlapping matches, left to right
RECURSIVE reSubFrom(_, _, _, _, _)
reSubFrom(s, i, open, close, f) ==
  LET starts == {k \in i..Len(s) : LazyMatchEnd(s, k, open, close) > 0}
  IN IF starts = {} THEN Slice(s, i, Len(s))
     ELSE LET b == SetMin(starts)
              e == LazyMatchEnd(s, b, open, close)
          IN Slice(s, i, b - 1) \o Repl(f, Slice(s, b, e))
               \o reSubFrom(s, e + 1, open, close, f)

\* re.sub(r"\[.+?\]", f, s)
SubPinyin(f, s) == reSubFrom(s, 1, <<"[">>, "]", f)

\* re.sub(r"\/CL:.+?\/", f, s)
SubCL(f, s) == reSubFrom(s, 1, <<"/", "C", "L", ":">>, "/", f)

\* re.split(r" \[|\] ", s, maxsplit)
RECURSIVE reSplitFrom(_, _, _)
reSplitFrom(s, i, maxsplit) ==
  LET seps == {k \in i..Len(s) : StartsAt(s, k, <<" ", "[">>) \/ StartsAt(s, k, <<"]", " ">>)}
  IN IF maxsplit = 0 \/ seps = {} THEN <<Slice(s, i, Len(s))>>
     ELSE <<Slice(s, i, SetMin(seps) - 1)>> \o reSplitFrom(s, SetMin(seps) + 2, maxsplit - 1)

SplitLine(s) == reSplitFrom(s, 1, 2)

(***************************************************************************)
(* create_termbank: the body of the loop over the lines                    *)
(***************************************************************************)
\* lines 90-92: the pronunciation brackets of the whole line are rewritten
Pinyin(line, is_number) ==
  LET formatted == SubPinyin("format_pinyin", strip(line))
  IN IF ~is_number THEN SubPinyin("to_pinyin", formatted) ELSE formatted

\* the forms without the deletion of lines 96-97
Dedup_keeps_both(matches) == matches

\* lines 96-97: a second form equal to the first is deleted
Dedup(matches) ==
  IF matches[1] = matches[2]
    THEN <<matches[1]>> \o Slice(matches, 3, Len(matches))
    ELSE matches

\* lines 100-110: the meaning text to the list of glosses
Meanings(meaning, is_separate) ==
  LET stripped == removesuffix(removeprefix(meaning, <<"/">>), <<"/">>)
  IN IF is_separate
       THEN split(replace(SubCL("format_CL", stripped), <<"/">>, <<"\n">>), "\n")
       ELSE split(replace(SubCL("split_CL", stripped), <<"/">>, <<",", " ">>), "\n")

\* line 111
Entry(match, pronunciation, meanings, idx) ==
  <<match, pronunciation, EmptyStr, EmptyStr, 2, meanings, idx, EmptyStr>>

\* lines 90-111: the entries of one line, or the exception the line raises
LoopBody(line, is_number, is_separate, idx) ==
  LET parts == SplitLine(Pinyin(line, is_number))
  IN IF Len(parts) # 3 THEN [raised |-> "ValueError", entries |-> <<>>]
     ELSE LET chars == splitWhitespace(parts[1])
          IN IF Len(chars) < 2 THEN [raised |-> "IndexError", entries |-> <<>>]
             ELSE LET matches == Dedup(chars)
                      meanings == Meanings(parts[3], is_separate)
                  IN [raised |-> "",
                      entries |-> [k \in 1..Len(matches) |->
                                     Entry(matches[k], parts[2], meanings, idx)]]

\* index advanced by the number of entries instead of by one
NextIndex_per_entry(idx, entries) == idx + Len(entries)

\* line 113: index += 1
NextIndex(idx, entries) == idx + 1

\* a batch of a single entry taken for the empty batch
Falsy_single(bank) == Len(bank) < 2

\* line 124: not term_bank
Falsy(bank) == bank = <<>>

(***************************************************************************)
(* The lines the line source can hand out. "U+5802" is ONE character, the  *)
(* character of that code point.                                           *)
(***************************************************************************)
\* the line quoted at src/main.py:85
ExampleLine ==
  <<"課", " ", "课", " ", "[", "k", "e", "4", "]", " ", "/", "s", "u", "b", "j", "e",
    "c", "t", "/", "c", "o", "u", "r", "s", "e", "/", "C", "L", ":", "門", "|", "门",
    "[", "m", "e", "n", "2", "]", "/", "c", "l", "a", "s", "s", "/", "l", "e", "s",
    "s", "o", "n", "/", "C", "L", ":", "U+5802", "[", "t", "a", "n", "g", "2", "]",
    ",", "節", "|", "节", "[", "j", "i", "e", "2", "]", "/", "t", "o", " ", "l", "e",
    "v", "y", "/", "t", "a", "x", "/", "f", "o", "r", "m", " ", "o", "f", " ", "d",
    "i", "v", "i", "n", "a", "t", "i", "o", "n", "/", "\n">>

\* one form, no classifier
SameFormLine ==
  <<"人", " ", "人", " ", "[", "r", "e", "n", "2", "]", " ", "/", "p", "e", "r", "s",
    "o", "n", "/", "\n">>

\* two forms, a classifier as the last field
TwoFormLine ==
  <<"課", " ", "课", " ", "[", "k", "e", "4", "]", " ", "/", "s", "u", "b", "j", "e",
    "c", "t", "/", "C", "L", ":", "門", "|", "门", "[", "m", "e", "n", "2", "]", "/",
    "\n">>

\* no bracketed pronunciation
NoBracketLine ==
  <<"人", " ", "人", " ", "/", "p", "e", "r", "s", "o", "n", "/", "\n">>

\* no meaning after the pronunciation
NoMeaningLine ==
  <<"人", " ", "人", " ", "[", "r", "e", "n", "2", "]", "\n">>

\* a meaning that is not slash-delimited
NoSlashLine ==
  <<"人", " ", "人", " ", "[", "r", "e", "n", "2", "]", " ", "p", "e", "r", "s", "o",
    "n", "\n">>

\* a single character form
OneTokenLine ==
  <<"人", " ", "[", "r", "e", "n", "2", "]", " ", "/", "p", "e", "r", "s", "o", "n",
    "/", "\n">>

\* three character forms
ThreeTokenLine ==
  <<"課", " ", "课", " ", "人", " ", "[", "k", "e", "4", "]", " ", "/", "s", "u", "b",
    "j", "e", "c", "t", "/", "\n">>

\* the character forms and the pronunciation of a generated line
HeadProns ==
  {<<<<"課", " ", "课">>, <<"k", "e", "4">>>>,
   <<<<"人", " ", "人">>, <<"L", "u", ":", "4", " ", "e", "r", "5">>>>}

Fields ==
  {<<"t", "a", "x">>,
   <<"C", "L", ":", "門", "|", "门", "[", "m", "e", "n", "2", "]">>,
   <<"C", "L", ":", "節", "|", "节", "[", "j", "i", "e", "2", "]", ",", "門", "|", "门", "[", "m", "e", "n", "2", "]">>}

RECURSIVE Join(_, _)
Join(fields, sep) ==
  IF Len(fields) = 1 THEN fields[1]
  ELSE fields[1] \o sep \o Join(Tail(fields), sep)

\* <traditional> <simplified> [<pronunciation>] /<meaning1>/<meaning2>/.../
MkLine(head, pron, fields) ==
  head \o <<" ", "[">> \o pron \o <<"]", " ", "/">> \o Join(fields, <<"/">>) \o <<"/", "\n">>

ShapedLines ==
  {MkLine(hp[1], hp[2], fs) : hp \in HeadProns,
                               fs \in UNION {[1..n -> Fields] : n \in 1..MaxFields}}

MalformedLines == {NoBracketLine, NoMeaningLine, NoSlashLine, OneTokenLine, ThreeTokenLine}

\* the lines of the single-iteration specification
TextLines == ShapedLines \cup MalformedLines \cup {ExampleLine}

\* the lines of the batching specification
BatchLines == {SameFormLine, TwoFormLine, NoBracketLine}

(***************************************************************************)
(* State                                                                   *)
(***************************************************************************)
VARIABLES
  is_number,    \* args.is_number
  is_separate,  \* args.is_separate
  consumed,     \* the lines args.dict_file has handed out so far, in order
  eof,          \* args.dict_file is exhausted
  index,        \* termbank_creator's index, shared by all calls of create_termbank
  termbank,     \* create_termbank's local list
  term_bank,    \* create_termbanks' term_bank, the last value create_termbank returned
  yielded,      \* the batches create_termbanks has yielded, in order
  pc            \* "main": create_termbanks is about to call create_termbank;
                \* "loop": inside create_termbank's for loop;
                \* "returned": create_termbank has returned; "done": the generator
                \* has ended; "raised": an exception left the generator

vars == <<is_number, is_separate, consumed, eof, index, termbank, term_bank, yielded, pc>>

Init ==
  /\ is_number \in BOOLEAN
  /\ is_separate \in BOOLEAN
  /\ consumed = <<>>
  /\ eof = FALSE
  /\ index = 1
  /\ termbank = <<>>
  /\ term_bank = <<>>
  /\ yielded = <<>>
  /\ pc = "main"

\* line 123 and line 84: create_termbank is called and starts an empty list
Call ==
  /\ pc = "main"
  /\ termbank' = <<>>
  /\ pc' = "loop"
  /\ UNCHANGED <<is_number, is_separate, consumed, eof, index, term_bank, yielded>>

\* lines 86-88: the loop takes the next line and finds the list full: the list is
\* returned, and the line just taken is not looked at
IterFull(lines, limit) ==
  /\ pc = "loop"
  /\ ~eof
  /\ Len(consumed) < limit
  /\ \E line \in lines : consumed' = Append(consumed, line)
  /\ Len(termbank) >= BankSize
  /\ term_bank' = termbank
  /\ pc' = "returned"
  /\ UNCHANGED <<is_number, is_separate, eof, index, termbank, yielded>>

\* lines 86-113: the loop takes the next line and appends its entries; or the
\* unpacking (line 94) or the indexing (line 96) raises, and the exception leaves
\* create_termbank and the generator
Iter(lines, limit) ==
  /\ pc = "loop"
  /\ ~eof
  /\ Len(consumed) < limit
  /\ Len(termbank) < BankSize
  /\ \E line \in lines :
       \E body \in {LoopBody(line, is_number, is_separate, index)} :
          /\ consumed' = Append(consumed, line)
          /\ IF body.raised = ""
               THEN /\ termbank' = termbank \o body.entries
                    /\ index' = NextIndex(index, body.entries)
                    /\ pc' = pc
               ELSE /\ pc' = "raised"
                    /\ UNCHANGED <<termbank, index>>
  /\ UNCHANGED <<is_number, is_separate, eof, term_bank, yielded>>

\* lines 86 and 114: the file has no further line: the loop ends and the list is returned
Exhausted ==
  /\ pc = "loop"
  /\ eof' = TRUE
  /\ term_bank' = termbank
  /\ pc' = "returned"
  /\ UNCHANGED <<is_number, is_separate, consumed, index, termbank, yielded>>

\* line 126: a batch that is not empty is yielded
Yield ==
  /\ pc = "returned"
  /\ ~Falsy(term_bank)
  /\ yielded' = Append(yielded, term_bank)
  /\ pc' = "main"
  /\ UNCHANGED <<is_number, is_separate, consumed, eof, index, termbank, term_bank>>

\* lines 124-125: an empty batch ends the generator
Stop ==
  /\ pc = "returned"
  /\ Falsy(term_bank)
  /\ pc' = "done"
  /\ UNCHANGED <<is_number, is_separate, consumed, eof, index, termbank, term_bank, yielded>>

ReadFull == IterFull(BatchLines, MaxLines)

ReadLine == Iter(BatchLines, MaxLines)

Next == Call \/ ReadFull \/ ReadLine \/ Exhausted \/ Yield \/ Stop

Spec == Init /\ [][Next]_vars

\* The program is sequential, so a call, a yield and the end of the generator
\* happen when they can; the input is finite, so the loop of create_termbank
\* reaches the end of the file.
FairSpec ==
  Spec /\ WF_vars(Call) /\ WF_vars(Exhausted) /\ WF_vars(Yield) /\ WF_vars(Stop)

(***************************************************************************)
(* One iteration of create_termbank's loop, on any line of TextLines: the  *)
(* first iteration of the first call.                                      *)
(***************************************************************************)
InitText ==
  /\ is_number \in BOOLEAN
  /\ is_separate \in BOOLEAN
  /\ consumed = <<>>
  /\ eof = FALSE
  /\ index = 1
  /\ termbank = <<>>
  /\ term_bank = <<>>
  /\ yielded = <<>>
  /\ pc = "loop"

ConvertLine == Iter(TextLines, 1)

NextText == ConvertLine

TextSpec == InitText /\ [][NextText]_vars

(***************************************************************************)
(* Properties                                                              *)
(***************************************************************************)
RECURSIVE Flatten(_)
Flatten(banks) == IF banks = <<>> THEN <<>> ELSE Head(banks) \o Flatten(Tail(banks))

\* an entry without its sequence_index
NoIndex(entry) == [entry EXCEPT ![7] = 0]

\* the entries of the lines ls[k..], in line order, the line at position j numbered j
RECURSIVE EntriesFrom(_, _)
EntriesFrom(ls, k) ==
  IF k > Len(ls) THEN <<>>
  ELSE LoopBody(ls[k], is_number, is_separate, k).entries \o EntriesFrom(ls, k + 1)

\* C1: when the generator has ended, the yielded batches, concatenated in yield
\* order, are the entries of every line taken from the source, in line order,
\* each line's entries exactly once (sequence_index left aside).
C1_BatchesHoldEveryLine ==
  pc = "done" =>
    LET got == Flatten(yielded)
        want == EntriesFrom(consumed, 1)
    IN /\ Len(got) = Len(want)
       /\ \A k \in 1..Len(got) : NoIndex(got[k]) = NoIndex(want[k])

\* C2: no yielded batch holds more than TERM_BANK_SIZE entries.
C2_BatchAtMostTermBankSize ==
  \A b \in 1..Len(yielded) : Len(yielded[b]) <= BankSize

\* C3: the entries of the line processed last carry, as sequence_index, the
\* 1-based position of that line among the lines taken from the source.
C3_IndexIsLinePosition ==
  (pc = "loop" /\ termbank # <<>>) => termbank[Len(termbank)][7] = Len(consumed)

\* C10: over the concatenation of the yielded batches the sequence_index starts
\* at 1 and each entry has the index of the entry before it or that index plus 1,
\* batch boundaries included.
C10_IndexGapFree ==
  LET all == Flatten(yielded)
  IN /\ all # <<>> => all[1][7] = 1
     /\ \A k \in 2..Len(all) : all[k][7] \in {all[k - 1][7], all[k - 1][7] + 1}

\* a second batch follows the first with the next index, after a line was lost
\* between them
C10_Witness ==
  /\ Len(yielded) >= 2
  /\ yielded[2][1][7] = yielded[1][Len(yielded[1])][7] + 1
  /\ Len(consumed) > index - 1

\* C8: the generator ends (or raises); it ends exactly when create_termbank has
\* returned an empty batch, an empty batch is returned only with the source
\* exhausted, and no yielded batch is empty.
C8_EndsOnEmptyBatch ==
  /\ <>(pc \in {"done", "raised"})
  /\ [](pc = "done" => (eof /\ term_bank = <<>>))
  /\ []((pc = "returned" /\ term_bank = <<>>) => eof)
  /\ [](\A b \in 1..Len(yielded) : yielded[b] # <<>>)
  /\ [][pc = "returned" => ((pc' = "done") <=> (term_bank = <<>>))]_vars

\* the generator has ended after two batches
C8_Witness == pc = "done" /\ Len(yielded) >= 2 /\ eof

(***************************************************************************)
(* Properties of one iteration (TextSpec)                                  *)
(***************************************************************************)
\* the iteration has taken a line and appended its entries
Converted == pc = "loop" /\ Len(consumed) = 1

Line == consumed[1]

Glosses == termbank[1][6]

\* the character forms as written in the line: the words before " ["
RawForms(line) ==
  LET b == Find(line, 1, <<" ", "[">>)
  IN IF b = 0 THEN <<>> ELSE splitWhitespace(Slice(line, 1, b - 1))

\* the text between the first "[" and the "]" that follows it
BracketText(line) ==
  LET b == Find(line, 1, <<"[">>)
      e == Find(line, b + 2, <<"]">>)
  IN Slice(line, b + 1, e - 1)

\* the slash-delimited fields of the meaning of a line of the documented shape
RawFields(line) ==
  LET b == Find(line, 1, <<"]", " ", "/">>)
      text == strip(line)
  IN split(Slice(text, b + 3, Len(text) - 1), "/")

IsCL(field) == StartsAt(field, 1, <<"C", "L", ":">>)

HasShape(line) == line \in ShapedLines \cup {ExampleLine}

\* C4: a line with two character forms gives one entry when the forms are
\* equal and two otherwise, traditional first; the entries of the line share
\* pronunciation, glosses and sequence_index, and the other fields are "", "", 2, "".
C4_OneEntryPerDistinctForm ==
  (Converted /\ Len(RawForms(Line)) = 2) =>
    LET forms == RawForms(Line)
    IN /\ forms[1] = forms[2] => (Len(termbank) = 1 /\ termbank[1][1] = forms[1])
       /\ forms[1] # forms[2] =>
            (Len(termbank) = 2 /\ termbank[1][1] = forms[1] /\ termbank[2][1] = forms[2])
       /\ \A k \in 1..Len(termbank) :
            /\ termbank[k][2] = termbank[1][2]
            /\ termbank[k][6] = termbank[1][6]
            /\ termbank[k][7] = termbank[1][7]
            /\ termbank[k][3] = EmptyStr
            /\ termbank[k][4] = EmptyStr
            /\ termbank[k][5] = 2
            /\ termbank[k][8] = EmptyStr

\* a line with equal forms has given a single entry
C4_Witness ==
  /\ Converted
  /\ Len(RawForms(Line)) = 2
  /\ RawForms(Line)[1] = RawForms(Line)[2]
  /\ Len(termbank) = 1

\* C5: in default mode every "CL:" of the glosses stands right after " (":
\* no classifier is a gloss of its own or a comma-joined part of a gloss. Stated
\* for the lines whose first field is a definition, so that every classifier
\* has a field before it.
C5_ClassifierAlwaysParenthesized ==
  (Converted /\ ~is_separate /\ HasShape(Line) /\ ~IsCL(RawFields(Line)[1])) =>
    \A g \in 1..Len(Glosses) : \A k \in 1..Len(Glosses[g]) :
      StartsAt(Glosses[g], k, <<"C", "L", ":">>) =>
        StartsAt(Glosses[g], k - 2, <<" ", "(", "C", "L", ":">>)

\* the glosses the specification gives for the line of src/main.py:85
SpecExampleGlosses ==
  <<<<"s", "u", "b", "j", "e", "c", "t">>,
    <<"c", "o", "u", "r", "s", "e", " ", "(", "門", "|", "门", "[", "m", "e2", "n", "]",
     ")">>,
    <<"c", "l", "a", "s", "s">>,
    <<"l", "e", "s", "s", "o", "n", " ", "(", "U+5802", "[", "t", "a2", "n", "g", "]",
     ",", " ", "節", "|", "节", "[", "j", "i", "e2", "]", ")">>,
    <<"t", "o", " ", "l", "e", "v", "y">>,
    <<"t", "a", "x">>,
    <<"f", "o", "r", "m", " ", "o", "f", " ", "d", "i", "v", "i", "n", "a", "t", "i",
     "o", "n">>>>

\* the glosses the program gives for it
ExampleGlosses ==
  <<<<"s", "u", "b", "j", "e", "c", "t", ",", " ", "c", "o", "u", "r", "s", "e", " ",
     "(", "C", "L", ":", " ", "門", "|", "门", "[", "m", "e2", "n", "]", ")">>,
    <<"c", "l", "a", "s", "s", ",", " ", "l", "e", "s", "s", "o", "n", " ", "(", "C",
     "L", ":", " ", "U+5802", "[", "t", "a2", "n", "g", "]", ",", " ", "節", "|", "节",
     "[", "j", "i", "e2", "]", ")">>,
    <<"t", "o", " ", "l", "e", "v", "y", ",", " ", "t", "a", "x", ",", " ", "f", "o",
     "r", "m", " ", "o", "f", " ", "d", "i", "v", "i", "n", "a", "t", "i", "o", "n">>>>

\* C6 as stated: in default mode, with diacritic pinyin, the example line has the
\* 7 glosses of the specification.
C6_ExampleHasSevenGlosses ==
  (Converted /\ ~is_separate /\ ~is_number /\ Line = ExampleLine) =>
    Glosses = SpecExampleGlosses

\* the number of classifier fields that  /CL:.+?/  matches: those with a field
\* before and a field after them whose leading slash the match before has not taken
RECURSIVE MatchedCL(_, _, _)
MatchedCL(fields, k, taken) ==
  IF k >= Len(fields) THEN 0
  ELSE IF k > 1 /\ IsCL(fields[k]) /\ ~taken THEN 1 + MatchedCL(fields, k + 1, TRUE)
  ELSE MatchedCL(fields, k + 1, FALSE)

\* C6 amended: in default mode a gloss ends only after a classifier field that
\* /CL:.+?/ matches, so a line has one gloss more than it has such fields, and
\* no gloss holds a slash; the example line has the 3 glosses ExampleGlosses, on
\* two entries with the pronunciation k-e4.
C6_GlossPerClassifierGroup ==
  (Converted /\ ~is_separate /\ HasShape(Line)) =>
    /\ Len(Glosses) = 1 + MatchedCL(RawFields(Line), 1, FALSE)
    /\ \A g \in 1..Len(Glosses) : Find(Glosses[g], 1, <<"/">>) = 0
    /\ (~is_number /\ Line = ExampleLine) =>
         /\ Glosses = ExampleGlosses
         /\ Len(termbank) = 2
         /\ termbank[1][2] = <<"k", "e4">>

\* the example line has been converted in default mode
C6_Witness ==
  Converted /\ ~is_separate /\ ~is_number /\ Line = ExampleLine /\ Len(termbank) = 2

\* a line has a bracketed pronunciation
HasPronunciation(line) ==
  \E b \in 1..Len(line) : \E e \in (b + 2)..Len(line) : line[b] = "[" /\ line[e] = "]"

\* a line has a meaning that starts and ends with a slash
HasSlashMeaning(line) ==
  /\ Find(line, 1, <<"]", " ", "/">>) > 0
  /\ strip(line)[Len(strip(line))] = "/"

\* C7: a line without the bracketed pronunciation or without the slash-delimited
\* meaning raises: it gives no entry and the loop does not go on.
C7_MalformedLineRaises ==
  (Len(consumed) = 1 /\ (~HasPronunciation(Line) \/ ~HasSlashMeaning(Line))) =>
    (pc = "raised" /\ termbank = <<>>)

\* C9 as stated: with the numeric flag the pronunciation is the bracketed text
\* with "u:" replaced by the u-umlaut and nothing else changed.
C9_OnlyUmlautReplaced ==
  (Converted /\ is_number) =>
    \A k \in 1..Len(termbank) :
      termbank[k][2] = replace(BracketText(Line), <<"u", ":">>, <<"ü">>)

\* C9 amended: with the numeric flag the pronunciation is the bracketed text in
\* lower case with "u:" replaced by the u-umlaut; the tone digits are kept.
C9_LowercasedUmlautReplaced ==
  (Converted /\ is_number) =>
    \A k \in 1..Len(termbank) :
      /\ termbank[k][2] = replace(lower(BracketText(Line)), <<"u", ":">>, <<"ü">>)
      /\ \A d \in {"1", "2", "3", "4", "5"} :
           Cardinality({j \in 1..Len(termbank[k][2]) : termbank[k][2][j] = d})
             = Cardinality({j \in 1..Len(BracketText(Line)) : BracketText(Line)[j] = d})

\* a pronunciation written with a capital letter and "u:" has been converted
C9_Witness ==
  /\ Converted
  /\ is_number
  /\ BracketText(Line) = <<"L", "u", ":", "4", " ", "e", "r", "5">>
  /\ termbank[1][2] = <<"l", "ü", "4", " ", "e", "r", "5">>

====
